---- MODULE Spec2Model ----
(***************************************************************************)
(* asciink: a byte stream read from stdin is shown on an Inky e-ink        *)
(* display, either as the image it encodes or as ANSI text rendered to an  *)
(* image by rich (text -> HTML) and chromium-headless-shell (HTML -> PNG). *)
(*                                                                         *)
(* Each process p is one invocation of main() (src/src/asciink.py).  The   *)
(* image-path directory (the temporary .html files and output.png) is      *)
(* shared by all invocations.  pc[p] is the position of p in main() and    *)
(* from_ansi().                                                            *)
(***************************************************************************)
EXTENDS Integers, Sequences, FiniteSets, TLC

\* ------------------------------------------------------------- bounds
MaxLen     == 2      \* longest stdin byte string
MaxColumns == 2      \* largest --columns
MaxRows    == 2      \* largest --rows
MaxRuns    == 2      \* invocations of main() per process

\* ---------------------------------------------------- program constants
WindowWidth  == 800  \* --window-size=800,480
WindowHeight == 480
DefaultSaturation == 6    \* 0.6, in tenths
DefaultContrast   == 14   \* 1.4, in tenths
DefaultFontSize   == 12

Procs == {1, 2}

\* Bytes of stdin: "a", "\n", and 0xFF, which is never valid UTF-8.
Bytes == {97, 10, 255}
NewLine == 10
ReplacementChar == 65533

RECURSIVE ByteStrings(_)
ByteStrings(n) ==
    IF n = 0 THEN {<<>>}
    ELSE LET shorter == ByteStrings(n - 1)
         IN  shorter \cup {Append(s, b) : s \in {t \in shorter : Len(t) = n - 1}, b \in Bytes}

\* Resolutions an image or an Inky display can have.
Resolutions == {<<WindowWidth, WindowHeight>>, <<640, 400>>}

\* The two TerminalTheme constants of the module.
INKY_IMPRESSION_73_2025 == "light"
INKY_IMPRESSION_73_2025_DARK == "dark"
Themes == {INKY_IMPRESSION_73_2025, INKY_IMPRESSION_73_2025_DARK}

\* ------------------------------------------------------------- values
NoArgs  == [debug |-> FALSE, font_size |-> 0, columns |-> 0, rows |-> 0,
            saturation |-> 0, contrast |-> 0]
NoInput == [fmt |-> "unread", w |-> 0, h |-> 0, bytes |-> <<>>]
NoImage == [kind |-> "none", w |-> 0, h |-> 0, rows |-> <<>>, theme |-> "none", font |-> 0,
            by |-> <<0, 0>>]
NoShown == [via |-> "none", img |-> NoImage, kwargs |-> [saturation |-> 0], res |-> <<0, 0>>]
NoConsole == [printed |-> FALSE, rows |-> <<>>]

\* --columns and --rows are type=int with no range check: zero and negative
\* values parse like any other.
NonPositive == {-1, 0}

\* What parse_args can hand to main().  --image-path is one directory, the
\* same for every invocation; whether --chromium-headless-shell-bin is found
\* is the variable `which`.
ArgSpace ==
    [debug : BOOLEAN, font_size : {DefaultFontSize, 16},
     columns : NonPositive \cup 1..MaxColumns, rows : NonPositive \cup 1..MaxRows,
     saturation : {DefaultSaturation, 10}, contrast : {DefaultContrast, 10}]

\* What stdin can hold: bytes Image.open does not identify (text), bytes it
\* decodes as a raster image, and bytes on which it raises an exception that
\* is not UnidentifiedImageError (an image header announcing too many pixels,
\* a damaged file).
TextInputs   == {[fmt |-> "text", w |-> 0, h |-> 0, bytes |-> b] : b \in ByteStrings(MaxLen)}
ImageInputs  == {[fmt |-> "image", w |-> r[1], h |-> r[2], bytes |-> <<137, 80>>] : r \in Resolutions}
BrokenInputs == {[fmt |-> "broken", w |-> 0, h |-> 0, bytes |-> <<137, 80>>]}
InputSpace   == TextInputs \cup ImageInputs \cup BrokenInputs

\* What the chromium subprocess can do: its return code, and whether it
\* wrote the screenshot.
ChromiumOutcomes == [rc : {0, 1}, wrote : BOOLEAN]

VARIABLES
    pc,         \* position of each invocation in main()/from_ansi()
    runs,       \* invocations started so far, per process
    args,       \* parsed command line
    which,      \* whether shutil.which finds the chromium binary
    stdin,      \* bytes read from stdin
    detected,   \* what is_image did: "unset", "image", "none" or "error"
    console,    \* the recording rich Console of from_ansi
    src,        \* name of the temporary .html file (0: none)
    result,     \* return code of the chromium subprocess (-1: not run)
    spawned,    \* subprocesses run by this invocation
    image,      \* the image main holds
    shown,      \* what the output step was handed
    exit,       \* "running", "0", "1", "2" or the exception that ended main
    files,      \* the .html files under image-path
    outputPng,  \* image-path/output.png (NoImage: absent)
    nextTmp     \* names handed out by NamedTemporaryFile

vars == <<pc, runs, args, which, stdin, detected, console, src, result, spawned,
          image, shown, exit, files, outputPng, nextTmp>>

Me(p) == <<p, runs[p]>>

Init ==
    /\ pc = [p \in Procs |-> "start"]
    /\ runs = [p \in Procs |-> 0]
    /\ args = [p \in Procs |-> NoArgs]
    /\ which = [p \in Procs |-> FALSE]
    /\ stdin = [p \in Procs |-> NoInput]
    /\ detected = [p \in Procs |-> "unset"]
    /\ console = [p \in Procs |-> NoConsole]
    /\ src = [p \in Procs |-> 0]
    /\ result = [p \in Procs |-> -1]
    /\ spawned = [p \in Procs |-> 0]
    /\ image = [p \in Procs |-> NoImage]
    /\ shown = [p \in Procs |-> NoShown]
    /\ exit = [p \in Procs |-> "running"]
    /\ files = {}
    /\ outputPng = NoImage
    /\ nextTmp = 1

\* ------------------------------------------------------ pure functions

\* stdin.decode("utf-8", errors="replace") on the bytes of Bytes: an ASCII
\* byte is its own code point, and 0xFF, which no UTF-8 sequence contains,
\* decodes to U+FFFD.
DecodeByte(b) == IF b < 128 THEN b ELSE ReplacementChar

decode(bytes) == [i \in 1..Len(bytes) |-> DecodeByte(bytes[i])]

\* Index of the first newline of s, 0 when it has none.
FirstNewLine(s) ==
    IF \E i \in 1..Len(s) : s[i] = NewLine
    THEN CHOOSE i \in 1..Len(s) : s[i] = NewLine /\ \A j \in 1..(i - 1) : s[j] # NewLine
    ELSE 0

\* str.splitlines(), as Text.from_ansi applies it: the text cut at its
\* newlines, with no empty line after a final newline.
RECURSIVE splitlines(_)
splitlines(s) ==
    IF Len(s) = 0 THEN <<>>
    ELSE LET i == FirstNewLine(s)
         IN  IF i = 0 THEN <<s>>
             ELSE <<SubSeq(s, 1, i - 1)>> \o splitlines(SubSeq(s, i + 1, Len(s)))

\* rich's wrapping of one line without spaces: it is folded every `width`
\* cells; an empty line stays one (empty) row.
RECURSIVE fold(_, _)
fold(line, width) ==
    IF Len(line) <= width THEN <<line>>
    ELSE <<SubSeq(line, 1, width)>> \o fold(SubSeq(line, width + 1, Len(line)), width)

RECURSIVE wrap(_, _)
wrap(lines, width) ==
    IF Len(lines) = 0 THEN <<>>
    ELSE fold(Head(lines), width) \o wrap(Tail(lines), width)

\* console.print(Text.from_ansi(text), end="") on Console(width, height,
\* record=True): the rows the console records.  The console wraps at `width`;
\* a console of width below 1 renders nothing, and what it records is the
\* empty text; `height` is stored by the Console and not used when text is
\* printed.
ConsolePrint(text, width, height) ==
    IF width < 1 THEN <<<<>>>> ELSE wrap(splitlines(text), width)

\* The theme console.save_html is called with.
SaveHtmlTheme(a) == INKY_IMPRESSION_73_2025_DARK

\* The page console.save_html writes: the recorded rows under a theme, in
\* the format preview(font_size) gives.
Html(name, rows, theme, font, who) ==
    [name |-> name, rows |-> rows, theme |-> theme, font |-> font, by |-> who]

\* The screenshot chromium takes of a page, at the window size of the command.
Screenshot(page, who) ==
    [kind |-> "screenshot", w |-> WindowWidth, h |-> WindowHeight,
     rows |-> page.rows, theme |-> page.theme, font |-> page.font, by |-> who]

\* What Image.open does on the bytes of stdin: it returns the image, raises
\* UnidentifiedImageError, or raises another exception.
ImageOpen(data) ==
    CASE data.fmt = "image"  -> "image"
      [] data.fmt = "broken" -> "error"
      [] OTHER               -> "unidentified"

\* is_image when Image.open returns or raises UnidentifiedImageError, the one
\* exception it catches: the decoded image, or NoImage (None).
is_image(data, who) ==
    IF ImageOpen(data) = "image"
    THEN [kind |-> "decoded", w |-> data.w, h |-> data.h, rows |-> <<>>, theme |-> "none",
          font |-> 0, by |-> who]
    ELSE NoImage

\* Mutant of OrRoute: from_ansi evaluated eagerly, whatever is_image returned.
OrRouteEager(img) == "console"

\* `is_image(stdin) or from_ansi(...)`: from_ansi is evaluated only when
\* is_image returned None.
OrRoute(img) == IF img.kind # "none" THEN "output" ELSE "console"

\* result.returncode != 0 or not os.path.exists(output_png)
CaptureFailed(rc, exists) == rc # 0 \/ ~exists

\* The keyword arguments InkyRenderer.render passes to display.set_image.
SetImageKwargs(saturation, contrast) == [saturation |-> saturation]

\* ------------------------------------------------------------ actions

\* main ends: it returns ("0", "1"), parse_args exits ("0", "2"), or an exception
\* leaves it.
EndMain(p, how) ==
    /\ pc' = [pc EXCEPT ![p] = "exited"]
    /\ exit' = [exit EXCEPT ![p] = how]

\* A new invocation (at most `limit` per process): the process starts with
\* fresh locals and parses its command line (main, up to parser.parse_args()).
ParseArgs(p, Args, Which, limit) ==
    /\ pc[p] \in {"start", "exited"}
    /\ runs[p] < limit
    /\ runs' = [runs EXCEPT ![p] = @ + 1]
    /\ \E a \in Args : args' = [args EXCEPT ![p] = a]
    /\ \E w \in Which : which' = [which EXCEPT ![p] = w]
    /\ stdin' = [stdin EXCEPT ![p] = NoInput]
    /\ detected' = [detected EXCEPT ![p] = "unset"]
    /\ console' = [console EXCEPT ![p] = NoConsole]
    /\ src' = [src EXCEPT ![p] = 0]
    /\ result' = [result EXCEPT ![p] = -1]
    /\ spawned' = [spawned EXCEPT ![p] = 0]
    /\ image' = [image EXCEPT ![p] = NoImage]
    /\ shown' = [shown EXCEPT ![p] = NoShown]
    /\ exit' = [exit EXCEPT ![p] = "running"]
    /\ pc' = [pc EXCEPT ![p] = "read"]
    /\ UNCHANGED <<files, outputPng, nextTmp>>

\* A command line parse_args rejects (--columns x): it prints the usage and
\* exits with status 2 before main reads anything.
RejectArgs(p, limit) ==
    /\ pc[p] = "start"
    /\ runs[p] < limit
    /\ runs' = [runs EXCEPT ![p] = @ + 1]
    /\ EndMain(p, "2")
    /\ UNCHANGED <<args, which, stdin, detected, console, src, result, spawned,
                   image, shown, files, outputPng, nextTmp>>

\* A command line with -h or --help: parse_args prints the help and exits
\* with status 0 before main reads anything.
HelpArgs(p, limit) ==
    /\ pc[p] = "start"
    /\ runs[p] < limit
    /\ runs' = [runs EXCEPT ![p] = @ + 1]
    /\ EndMain(p, "0")
    /\ UNCHANGED <<args, which, stdin, detected, console, src, result, spawned,
                   image, shown, files, outputPng, nextTmp>>

\* stdin = sys.stdin.buffer.read(); an empty read or a terminal prints the
\* help and returns 1.
ReadStdin(p, Inputs, Ttys) ==
    /\ pc[p] = "read"
    /\ \E data \in Inputs, isatty \in Ttys :
        /\ stdin' = [stdin EXCEPT ![p] = data]
        /\ IF Len(data.bytes) = 0 \/ isatty
           THEN EndMain(p, "1")
           ELSE /\ pc' = [pc EXCEPT ![p] = "is_image"]
                /\ exit' = exit
    /\ UNCHANGED <<runs, args, which, detected, console, src, result, spawned,
                   image, shown, files, outputPng, nextTmp>>

\* image = is_image(stdin) or from_ansi(...): the call of is_image and the
\* choice `or` makes.  An exception of Image.open that is_image does not
\* catch leaves is_image and main.
IsImage(p) ==
    /\ pc[p] = "is_image"
    /\ IF ImageOpen(stdin[p]) = "error"
       THEN /\ detected' = [detected EXCEPT ![p] = "error"]
            /\ image' = image
            /\ EndMain(p, "ImageOpenError")
       ELSE LET img == is_image(stdin[p], Me(p))
            IN  /\ detected' = [detected EXCEPT ![p] = IF img.kind = "none" THEN "none" ELSE "image"]
                /\ image' = [image EXCEPT ![p] = img]
                /\ pc' = [pc EXCEPT ![p] = OrRoute(img)]
                /\ exit' = exit
    /\ UNCHANGED <<runs, args, which, stdin, console, src, result, spawned,
                   shown, files, outputPng, nextTmp>>

\* from_ansi: the console is built and the decoded text printed to it.
PrintToConsole(p) ==
    /\ pc[p] = "console"
    /\ console' = [console EXCEPT ![p] =
            [printed |-> TRUE,
             rows |-> ConsolePrint(decode(stdin[p].bytes), args[p].columns, args[p].rows)]]
    /\ pc' = [pc EXCEPT ![p] = "save_html"]
    /\ UNCHANGED <<runs, args, which, stdin, detected, src, result, spawned,
                   image, shown, exit, files, outputPng, nextTmp>>

\* from_ansi: NamedTemporaryFile(dir=image_path, suffix=".html",
\* delete=False) and console.save_html into it.
SaveHtml(p) ==
    /\ pc[p] = "save_html"
    /\ src' = [src EXCEPT ![p] = nextTmp]
    /\ nextTmp' = nextTmp + 1
    /\ files' = files \cup {Html(nextTmp, console[p].rows, SaveHtmlTheme(args[p]),
                                args[p].font_size, Me(p))}
    /\ pc' = [pc EXCEPT ![p] = "binary_exists"]
    /\ UNCHANGED <<runs, args, which, stdin, detected, console, result, spawned,
                   image, shown, exit, outputPng>>

\* from_ansi: if not binary_exists(...): raise Exception("Expected ... to be
\* installed").
BinaryExists(p) ==
    /\ pc[p] = "binary_exists"
    /\ IF which[p]
       THEN /\ pc' = [pc EXCEPT ![p] = "chromium"]
            /\ exit' = exit
       ELSE EndMain(p, "ExpectedInstalled")
    /\ UNCHANGED <<runs, args, which, stdin, detected, console, src, result, spawned,
                   image, shown, files, outputPng, nextTmp>>

\* from_ansi: subprocess.run(command): chromium reads file://src.name and
\* may write the screenshot to image-path/output.png.
RunChromium(p, Outcomes) ==
    /\ pc[p] = "chromium"
    /\ \E o \in Outcomes :
        /\ result' = [result EXCEPT ![p] = o.rc]
        /\ outputPng' =
              IF o.wrote /\ \E f \in files : f.name = src[p]
              THEN Screenshot(CHOOSE f \in files : f.name = src[p], Me(p))
              ELSE outputPng
    /\ spawned' = [spawned EXCEPT ![p] = @ + 1]
    /\ pc' = [pc EXCEPT ![p] = "check"]
    /\ UNCHANGED <<runs, args, which, stdin, detected, console, src,
                   image, shown, exit, files, nextTmp>>

\* from_ansi: if result.returncode != 0 or not os.path.exists(output_png):
\* raise Exception("Failed capturing screenshot").
CheckCapture(p) ==
    /\ pc[p] = "check"
    /\ IF CaptureFailed(result[p], outputPng.kind # "none")
       THEN EndMain(p, "FailedCapturing")
       ELSE /\ pc' = [pc EXCEPT ![p] = "open"]
            /\ exit' = exit
    /\ UNCHANGED <<runs, args, which, stdin, detected, console, src, result, spawned,
                   image, shown, files, outputPng, nextTmp>>

\* from_ansi: image = Image.open(output_png).copy()
OpenOutput(p) ==
    /\ pc[p] = "open"
    /\ IF outputPng.kind = "none"
       THEN /\ EndMain(p, "FileNotFoundError")
            /\ image' = image
       ELSE /\ image' = [image EXCEPT ![p] = outputPng]
            /\ pc' = [pc EXCEPT ![p] = "remove"]
            /\ exit' = exit
    /\ UNCHANGED <<runs, args, which, stdin, detected, console, src, result, spawned,
                   shown, files, outputPng, nextTmp>>

\* from_ansi: os.remove(output_png); return image
RemoveOutput(p) ==
    /\ pc[p] = "remove"
    /\ IF outputPng.kind = "none"
       THEN /\ EndMain(p, "FileNotFoundError")
            /\ outputPng' = outputPng
       ELSE /\ outputPng' = NoImage
            /\ pc' = [pc EXCEPT ![p] = "output"]
            /\ exit' = exit
    /\ UNCHANGED <<runs, args, which, stdin, detected, console, src, result, spawned,
                   image, shown, files, nextTmp>>

\* main: image.show(...) in debug mode, else InkyRenderer().render(image,
\* saturation, contrast) on the display auto() finds; return 0.
Output(p, Displays) ==
    /\ pc[p] = "output"
    /\ IF args[p].debug
       THEN shown' = [shown EXCEPT ![p] =
                [via |-> "viewer", img |-> image[p], kwargs |-> [title |-> "Debug Output"],
                 res |-> <<0, 0>>]]
       ELSE \E r \in Displays :
              shown' = [shown EXCEPT ![p] =
                [via |-> "inky", img |-> image[p],
                 kwargs |-> SetImageKwargs(args[p].saturation, args[p].contrast),
                 res |-> r]]
    /\ EndMain(p, "0")
    /\ UNCHANGED <<runs, args, which, stdin, detected, console, src, result, spawned,
                   image, files, outputPng, nextTmp>>

\* One invocation of main, over every command line, input, outcome of the
\* helper and display.
Next ==
    \E p \in {1} :
        \/ ParseArgs(p, ArgSpace, BOOLEAN, 1)
        \/ RejectArgs(p, 1)
        \/ HelpArgs(p, 1)
        \/ ReadStdin(p, InputSpace, BOOLEAN)
        \/ IsImage(p)
        \/ PrintToConsole(p)
        \/ SaveHtml(p)
        \/ BinaryExists(p)
        \/ RunChromium(p, ChromiumOutcomes)
        \/ CheckCapture(p)
        \/ OpenOutput(p)
        \/ RemoveOutput(p)
        \/ Output(p, Resolutions)

Spec == Init /\ [][Next]_vars

\* The default command line, and two texts and an image to render.
DefaultArgs ==
    {[debug |-> FALSE, font_size |-> DefaultFontSize, columns |-> MaxColumns, rows |-> MaxRows,
      saturation |-> DefaultSaturation, contrast |-> DefaultContrast]}

FewInputs ==
    {[fmt |-> "text", w |-> 0, h |-> 0, bytes |-> b] : b \in {<<97>>, <<255>>}}
        \cup {[fmt |-> "image", w |-> WindowWidth, h |-> WindowHeight, bytes |-> <<137, 80>>]}

\* Renders one after the other on the same image-path: up to MaxRuns
\* invocations of one process, each starting when the one before has ended,
\* with the helper installed, over every outcome of the helper.
NextSeq ==
    \E p \in {1} :
        \/ ParseArgs(p, DefaultArgs, {TRUE}, MaxRuns)
        \/ ReadStdin(p, FewInputs, {FALSE})
        \/ IsImage(p)
        \/ PrintToConsole(p)
        \/ SaveHtml(p)
        \/ BinaryExists(p)
        \/ RunChromium(p, ChromiumOutcomes)
        \/ CheckCapture(p)
        \/ OpenOutput(p)
        \/ RemoveOutput(p)
        \/ Output(p, {<<WindowWidth, WindowHeight>>})

SpecSeq == Init /\ [][NextSeq]_vars

\* Two processes rendering concurrently on the same image-path, with the
\* helper installed and always succeeding: whatever goes wrong here is the
\* other process.
NextConc ==
    \E p \in Procs :
        \/ ParseArgs(p, DefaultArgs, {TRUE}, MaxRuns)
        \/ ReadStdin(p, FewInputs, {FALSE})
        \/ IsImage(p)
        \/ PrintToConsole(p)
        \/ SaveHtml(p)
        \/ BinaryExists(p)
        \/ RunChromium(p, {[rc |-> 0, wrote |-> TRUE]})
        \/ CheckCapture(p)
        \/ OpenOutput(p)
        \/ RemoveOutput(p)
        \/ Output(p, {<<WindowWidth, WindowHeight>>})

SpecConc == Init /\ [][NextConc]_vars

\* ------------------------------------------------------------- claims

AnsiLabels == {"console", "save_html", "binary_exists", "chromium", "check", "open", "remove"}

\* The invocation has entered from_ansi.
InFromAnsi(p) == pc[p] \in AnsiLabels \/ console[p].printed

\* main got past the read of a non-empty input from a pipe and past is_image.
Classified(p) == detected[p] # "unset"

\* C1 (as claimed): for every non-empty input from a pipe, is_image is called
\* first and from_ansi runs if and only if is_image did not identify an
\* image: exactly one of the two paths is taken, never both and never
\* neither, and the image at the output step comes from that path.
C1_ExactlyOnePath ==
    \A p \in Procs :
        /\ InFromAnsi(p) => detected[p] = "none"
        /\ Classified(p) =>
              \/ detected[p] = "image" /\ ~InFromAnsi(p) /\ image[p].kind = "decoded"
              \/ detected[p] # "image" /\ InFromAnsi(p)
        /\ pc[p] = "output" =>
              /\ image[p].kind \in {"decoded", "screenshot"}
              /\ (image[p].kind = "screenshot") <=> InFromAnsi(p)

\* The render configuration of p is valid and p was given something to render.
ValidRender(p) ==
    which[p] /\ args[p].rows >= 1 /\ args[p].columns >= 1 /\ detected[p] # "unset"

\* C2 (as claimed): with a valid configuration a failure while rasterizing
\* the ANSI text is recovered locally: once from_ansi has been entered, main
\* ends only by returning 0 after the output step was handed an image.
C2_RasterizationFailureRecovered ==
    \A p \in Procs :
        (pc[p] = "exited" /\ ValidRender(p) /\ InFromAnsi(p)) =>
            (exit[p] = "0" /\ shown[p].img.kind # "none")

\* main is to render text (stdin is not an image) and its render configuration
\* is invalid: rows or columns below 1, or the helper binary not installed.
InvalidConfig(p) ==
    /\ detected[p] = "none"
    /\ args[p].rows < 1 \/ args[p].columns < 1 \/ ~which[p]

\* C3 (as claimed): with an invalid render configuration the run aborts with
\* an error before the text is printed to the console, before a temporary
\* file is created under image-path and before a subprocess is run.
C3_ConfigErrorBeforeRendering ==
    \A p \in Procs :
        InvalidConfig(p) =>
            /\ ~console[p].printed
            /\ src[p] = 0
            /\ ~\E f \in files : f.by = Me(p)
            /\ spawned[p] = 0
            /\ exit[p] # "0"

\* C4: when is_image identifies the input, no step of that invocation builds
\* a console, creates or removes a file under image-path or runs a
\* subprocess, and the decoded image is what the output step is handed.
C4_ImagePathSkipsRasterization ==
    [][\A p \in Procs :
          detected'[p] = "image" =>
              /\ files' = files
              /\ outputPng' = outputPng
              /\ nextTmp' = nextTmp
              /\ ~console'[p].printed
              /\ src'[p] = 0
              /\ spawned'[p] = 0
              /\ pc'[p] \in {"output", "exited"}
              /\ pc'[p] = "exited" =>
                    /\ exit'[p] = "0"
                    /\ shown'[p].img.kind = "decoded"
                    /\ shown'[p].img.w = stdin'[p].w
                    /\ shown'[p].img.h = stdin'[p].h]_vars

C4_Witness ==
    \E p \in Procs :
        /\ detected[p] = "image"
        /\ exit[p] = "0"
        /\ shown[p].via = "inky"
        /\ shown[p].img.kind = "decoded"
        /\ shown[p].img.w = 640

\* C5 (as claimed): the image the ANSI path hands to the display has the
\* width and height the display reports.
C5_ImageHasDeviceResolution ==
    \A p \in Procs :
        (shown[p].via = "inky" /\ shown[p].img.kind = "screenshot") =>
            (shown[p].img.w = shown[p].res[1] /\ shown[p].img.h = shown[p].res[2])

\* C6 (as claimed): InkyRenderer.render passes both the saturation and the
\* contrast it was given on to the display with the image.
C6_BothColorParametersApplied ==
    \A p \in Procs :
        shown[p].via = "inky" =>
            /\ "saturation" \in DOMAIN shown[p].kwargs
            /\ shown[p].kwargs.saturation = args[p].saturation
            /\ "contrast" \in DOMAIN shown[p].kwargs
            /\ shown[p].kwargs.contrast = args[p].contrast

\* C7 (as claimed): for rows >= 1 and columns >= 1 the text handed to the
\* rasterizer has at most `rows` rows, each of at most `columns` cells.
C7_AtMostRowsLines ==
    \A p \in Procs :
        (console[p].printed /\ args[p].rows >= 1 /\ args[p].columns >= 1) =>
            /\ Len(console[p].rows) <= args[p].rows
            /\ \A i \in 1..Len(console[p].rows) : Len(console[p].rows[i]) <= args[p].columns
            /\ \A f \in files : f.by = Me(p) => Len(f.rows) <= args[p].rows

\* C8 (as claimed): for each of the two themes some command line makes
\* from_ansi save the page with that theme.
C8_ThemeSelectable ==
    \A p \in Procs :
        src[p] # 0 =>
            \A t \in Themes : \E a \in ArgSpace : SaveHtmlTheme(a) = t

\* C9 (as claimed): when a render has ended, normally or with an exception,
\* image-path holds neither a temporary .html file nor output.png, and the
\* image from_ansi returns is the screenshot its own helper wrote.
C9_NoStateCrossesRenders ==
    \A p \in Procs :
        /\ pc[p] = "exited" => (files = {} /\ outputPng = NoImage)
        /\ image[p].kind = "screenshot" => image[p].by = Me(p)

\* C10 (as claimed): of two renders running concurrently on one image-path,
\* with the helper succeeding, neither fails and each returns the screenshot
\* of its own page.
C10_ConcurrentRendersIsolated ==
    \A p \in Procs :
        /\ exit[p] \notin {"FailedCapturing", "FileNotFoundError"}
        /\ image[p].kind = "screenshot" => image[p].rows = console[p].rows

====
